---- MODULE Spec2Model ----
(***************************************************************************)
(* Placeholder controller of src/auto-reply/reply/placeholder.ts           *)
(* (createPlaceholderController) as a state machine.  Every public         *)
(* operation is an async function: the call runs synchronously up to its   *)
(* first await (one action), and each continuation after an await is an    *)
(* action of its own, taken when the awaited promise settles.  Emoji of    *)
(* the source are written as ASCII stand-ins (":thought:" for U+1F4AD,     *)
(* ":wrench:" for U+1F527, ...).                                           *)
(***************************************************************************)
EXTENDS Integers, Sequences, FiniteSets, TLC

\* Bound on the number of start/onTool/cleanup calls that get past their guards.
MaxCalls == 3

\* Bounds of the conversation registry: controller instances made for one
\* conversation, and transport calls they issue.
MaxControllers == 2
MaxRegCalls == 4

\* Bounds of the smart generator: messages in the history handed to
\* generateReaction, and invocations made when it is exercised on its own.
MaxHistory == 3
MaxGenCalls == 1

\* Bound on the calls that get past their guards when the controller runs with the
\* smart generator.
MaxSmartCalls == 2

\* const MAX_HISTORY_CHARS = 1500
MAX_HISTORY_CHARS == 1500

\* placeholderMessageId === undefined
NoId == 0

\* the value undefined of a string-typed variable
Undefined == "<undefined>"

VARIABLES
    config,                 \* PlaceholderConfig handed to the factory
    placeholderMessageId,   \* let placeholderMessageId
    active,                 \* let active
    currentToolText,        \* let currentToolText
    currentDisplayText,     \* let currentDisplayText
    tasks,                  \* suspended async continuations and pending generator promises
    calls,                  \* number of calls issued so far (identity of a continuation)
    chat,                   \* the transport: chat[id] is the message the id-th send created
    lastToolEdit,           \* history: message and text of the latest edit onTool() issued
    anyReject,              \* history: some transport call has rejected
    lastOp,                 \* history: the step taken last and how it ended
    registry,               \* conversation registry: the message registered for the conversation
    ctrl,                   \* the controller instances made for the conversation
    regTasks,               \* their suspended continuations
    regLog,                 \* history: the transport calls they issued, in order
    genConfig,              \* SmartPlaceholderConfig handed to createSmartPlaceholderGenerator
    soul,                   \* what loadSoulPersonality(agentDir) resolves with
    personality,            \* let personality
    history,                \* the conversation history the caller hands to generateReaction
    gens,                   \* invocations of the generator suspended at `await complete(...)`
    genCalls,               \* number of invocations so far (identity of an invocation)
    genReturn               \* history: the latest invocation that returned, and what it returned

mainVars == <<placeholderMessageId, active, currentToolText, currentDisplayText,
              tasks, calls, lastToolEdit, anyReject, lastOp>>

regVars == <<registry, ctrl, regTasks, regLog>>

genVars == <<genConfig, soul, personality, history, gens, genCalls, genReturn>>

vars == <<config, chat, mainVars, regVars, genVars>>

ctl == <<placeholderMessageId, active, currentToolText, currentDisplayText>>

----------------------------------------------------------------------------
\* Configuration and inputs

DEFAULT_MESSAGES == <<":thinking: Thinking...", ":thought: Processing...", ":brain: Working on it...">>

CustomMessages == <<"hmm">>

\* config.toolDisplay: foo has a full override, bar only a label, "reaction" none
toolDisplay == [foo |-> [emoji |-> ":tools:", label |-> "Working"],
                bar |-> [label |-> "Look"]]

ToolNames == {"reaction", "foo", "bar"}

\* args?.message: absent, a non-string value, or a string
ToolArgs == {[kind |-> "absent", message |-> ""],
             [kind |-> "number", message |-> "7"],
             [kind |-> "string", message |-> ""],
             [kind |-> "string", message |-> "hi"]}

\* what a generator promise resolves with: "" stands for undefined, "hmm" is also a
\* canned message, "wow" is not
SmartTexts == {"", "hmm", "wow"}

\* The configurations checked: every combination of the flags with a custom message
\* list, and the default message list with every flag at its default.
Configs ==
    {c \in [enabled : BOOLEAN,
            deleteOnResponse : BOOLEAN,
            messages : {<<>>, CustomMessages},
            generateReaction : BOOLEAN,
            generateToolDescription : BOOLEAN] :
        Len(c.messages) = 0 =>
            c.enabled /\ c.deleteOnResponse /\ ~c.generateReaction /\ ~c.generateToolDescription}

\* const messages = config.messages?.length ? config.messages : DEFAULT_MESSAGES
messages == IF Len(config.messages) > 0 THEN config.messages ELSE DEFAULT_MESSAGES

\* the values getRandomMessage can return
getRandomMessage == {messages[i] : i \in 1..Len(messages)}

\* getToolDisplay with the label default taken from the emoji default
getToolDisplay_NoLabelDefault(toolName) ==
    LET has == toolName \in DOMAIN toolDisplay
        override == IF has THEN toolDisplay[toolName] ELSE [none |-> ""]
    IN  [emoji |-> IF has /\ "emoji" \in DOMAIN override THEN override.emoji ELSE ":wrench:",
         label |-> IF has /\ "label" \in DOMAIN override THEN override.label ELSE ":wrench:"]

getToolDisplay(toolName) ==
    LET has == toolName \in DOMAIN toolDisplay
        override == IF has THEN toolDisplay[toolName] ELSE [none |-> ""]
    IN  [emoji |-> IF has /\ "emoji" \in DOMAIN override THEN override.emoji ELSE ":wrench:",
         label |-> IF has /\ "label" \in DOMAIN override THEN override.label ELSE toolName]

\* `${display.emoji} ${display.label}...`
ToolText(toolName) ==
    LET display == getToolDisplay(toolName)
    IN  display.emoji \o " " \o display.label \o "..."

\* `${args.message}` behind the thought-balloon prefix
ReactionText(args) == ":thought: " \o args.message

\* toolName === "reaction" && args?.message && typeof args.message === "string"
IsReactionCall(toolName, args) ==
    toolName = "reaction" /\ args.kind = "string" /\ args.message # ""

----------------------------------------------------------------------------
\* Continuations

\* A continuation suspended at the await point pc, or a pending generator promise.
\* tid is the number of the call it belongs to; msgId and text are the values the
\* call captured (the arguments of the transport call, the const msgId of the
\* refinement); userMessage is the truthiness of start's userMessage argument.
\* cleaned and overtaken are history: a cleanup() completed, or a later onTool()
\* changed the displayed text, while the generator promise was pending.
Task(tid, pc, msgId, text, um) ==
    [tid |-> tid, pc |-> pc, msgId |-> msgId, text |-> text, userMessage |-> um,
     cleaned |-> FALSE, overtaken |-> FALSE]

GeneratorPcs == {"generateReaction", "generateToolDescription"}

TasksAt(pc) == {t \in tasks : t.pc = pc}

Op(op, result) == [op |-> op, result |-> result]

Controllers == 1..MaxControllers

\* the controller, and the conversation registry, after construction
InitController ==
    /\ registry = NoId
    /\ ctrl = [c \in Controllers |-> [active |-> FALSE, messageId |-> NoId]]
    /\ regTasks = {}
    /\ regLog = <<>>
    /\ placeholderMessageId = NoId
    /\ active = FALSE
    /\ currentToolText = ""
    /\ currentDisplayText = ""
    /\ tasks = {}
    /\ calls = 0
    /\ chat = <<>>
    /\ lastToolEdit = [msgId |-> NoId, text |-> ""]
    /\ anyReject = FALSE
    /\ lastOp = Op("create", "ok")

\* no invocation of the generator yet
NoReturn ==
    [id |-> 0, kind |-> "", value |-> Undefined, raised |-> FALSE, aborted |-> FALSE,
     outcome |-> "", completions |-> 0]

\* the controller with a generator made from an empty configuration, no
\* personality file and no history
Init ==
    /\ config \in Configs
    /\ InitController
    /\ genConfig = [personality |-> Undefined, systemPrompt |-> Undefined]
    /\ soul = Undefined
    /\ personality = Undefined
    /\ history = <<>>
    /\ gens = {}
    /\ genCalls = 0
    /\ genReturn = NoReturn

----------------------------------------------------------------------------
\* The transport (PlaceholderSender)

\* sender.send(text) resolved: the message exists under a fresh id
Sent(text) == Append(chat, [text |-> text, deleted |-> FALSE])

\* sender.edit(messageId, text) resolved
Edited(messageId, text) == [chat EXCEPT ![messageId].text = text]

\* sender.delete(messageId) resolved
Deleted(messageId) == [chat EXCEPT ![messageId].deleted = TRUE]

----------------------------------------------------------------------------
\* start()

\* start() without `if (active) return`
StartReturnsEarly_NoActiveCheck == ~config.enabled

\* if (!config.enabled) return; if (active) return;
StartReturnsEarly == ~config.enabled \/ active

Start(userMessage) ==
    IF StartReturnsEarly
    THEN /\ lastOp' = Op("start", "noop")
         /\ UNCHANGED <<config, ctl, tasks, calls, chat, lastToolEdit, anyReject>>
    ELSE /\ calls < MaxCalls
         /\ \E text \in getRandomMessage :
                tasks' = tasks \cup {Task(calls + 1, "send", NoId, text, userMessage)}
         /\ calls' = calls + 1
         /\ lastOp' = Op("start", "await")
         /\ UNCHANGED <<config, ctl, chat, lastToolEdit, anyReject>>

\* start() with `await` in front of config.generateReaction(userMessage).then(...):
\* the call stays suspended until the generator promise settles
StartSendResolved_AwaitsGenerator(t) ==
    /\ t \in TasksAt("send")
    /\ LET id == Len(chat) + 1
           launch == config.generateReaction /\ t.userMessage /\ id # NoId
       IN  /\ chat' = Sent(t.text)
           /\ placeholderMessageId' = id
           /\ active' = TRUE
           /\ currentDisplayText' = t.text
           /\ tasks' = (tasks \ {t}) \cup
                  (IF launch THEN {Task(t.tid, "awaitGenerateReaction", id, "", FALSE)} ELSE {})
    /\ lastOp' = Op("start", "sent")
    /\ UNCHANGED <<config, currentToolText, calls, lastToolEdit, anyReject>>

\* the continuation of start after `await sender.send(text)` resolved
StartSendResolved(t) ==
    /\ t \in TasksAt("send")
    /\ LET id == Len(chat) + 1
           launch == config.generateReaction /\ t.userMessage /\ id # NoId
       IN  /\ chat' = Sent(t.text)
           /\ placeholderMessageId' = id
           /\ active' = TRUE
           /\ currentDisplayText' = t.text
           /\ tasks' = (tasks \ {t}) \cup
                  (IF launch THEN {Task(t.tid, "generateReaction", id, "", FALSE)} ELSE {})
    /\ lastOp' = Op("start", "sent")
    /\ UNCHANGED <<config, currentToolText, calls, lastToolEdit, anyReject>>

\* start() with `active = true` assigned before the await of the send
StartSendRejected_ActiveSetEarly(t) ==
    /\ t \in TasksAt("send")
    /\ tasks' = tasks \ {t}
    /\ active' = TRUE
    /\ anyReject' = TRUE
    /\ lastOp' = Op("start", "logged")
    /\ UNCHANGED <<config, placeholderMessageId, currentToolText, currentDisplayText,
                   calls, chat, lastToolEdit>>

\* `await sender.send(text)` rejected: catch (err) { log }
StartSendRejected(t) ==
    /\ t \in TasksAt("send")
    /\ tasks' = tasks \ {t}
    /\ anyReject' = TRUE
    /\ lastOp' = Op("start", "logged")
    /\ UNCHANGED <<config, ctl, calls, chat, lastToolEdit>>

----------------------------------------------------------------------------
\* The refinement handlers (.then(async (smartText) => ...)) of start and onTool

\* the refinement guard without `placeholderMessageId === msgId`
RefinementApplies_NoMsgIdCheck(t, smartText) ==
    /\ smartText # ""
    /\ active
    /\ smartText # currentDisplayText

\* smartText && active && placeholderMessageId === msgId && smartText !== currentDisplayText
RefinementApplies(t, smartText) ==
    /\ smartText # ""
    /\ active
    /\ placeholderMessageId = t.msgId
    /\ smartText # currentDisplayText

\* the generator promise resolved: the handler runs up to `await sender.edit(msgId, smartText)`
GeneratorResolved(t, smartText, editPc, op) ==
    /\ IF RefinementApplies(t, smartText)
       THEN /\ tasks' = (tasks \ {t}) \cup {Task(t.tid, editPc, t.msgId, smartText, FALSE)}
            /\ lastOp' = Op(op, "await")
       ELSE /\ tasks' = tasks \ {t}
            /\ lastOp' = Op(op, IF t.cleaned THEN "discarded" ELSE "dropped")
    /\ UNCHANGED <<config, ctl, calls, chat, lastToolEdit, anyReject>>

GenerateReactionResolved(t, smartText) ==
    /\ t \in TasksAt("generateReaction")
    /\ GeneratorResolved(t, smartText, "editSmartReaction", "reactionHandler")

GenerateToolDescriptionResolved(t, smartText) ==
    /\ t \in TasksAt("generateToolDescription")
    /\ GeneratorResolved(t, smartText, "editSmartTool", "toolDescriptionHandler")

\* the generator promise rejected: .catch((err) => { log })
GeneratorRejected(t) ==
    /\ t.pc \in GeneratorPcs
    /\ t \in tasks
    /\ tasks' = tasks \ {t}
    /\ lastOp' = Op(t.pc, "logged")
    /\ UNCHANGED <<config, ctl, calls, chat, lastToolEdit, anyReject>>

\* `await sender.edit(msgId, smartText)` resolved: currentDisplayText = smartText
SmartEditResolved(t) ==
    /\ t \in TasksAt("editSmartReaction") \cup TasksAt("editSmartTool")
    /\ chat' = Edited(t.msgId, t.text)
    /\ currentDisplayText' = t.text
    /\ tasks' = tasks \ {t}
    /\ lastOp' = Op(t.pc, "edited")
    /\ UNCHANGED <<config, placeholderMessageId, active, currentToolText, calls, lastToolEdit, anyReject>>

\* `await sender.edit(msgId, smartText)` rejected: catch (editErr) { log }
SmartEditRejected(t) ==
    /\ t \in TasksAt("editSmartReaction") \cup TasksAt("editSmartTool")
    /\ tasks' = tasks \ {t}
    /\ anyReject' = TRUE
    /\ lastOp' = Op(t.pc, "logged")
    /\ UNCHANGED <<config, ctl, calls, chat, lastToolEdit>>

----------------------------------------------------------------------------
\* onTool()

\* if (!config.enabled) return; if (!active || !placeholderMessageId) return;
OnToolReturnsEarly == ~config.enabled \/ ~active \/ placeholderMessageId = NoId

\* onTool() without the same-content skip
SkipsSameContent_Never(text) == FALSE

\* if (currentToolText === currentDisplayText) { log; return }
SkipsSameContent(text) == text = currentDisplayText

OnTool(toolName, args) ==
    IF OnToolReturnsEarly
    THEN /\ lastOp' = Op("onTool", "noop")
         /\ UNCHANGED <<config, ctl, tasks, calls, chat, lastToolEdit, anyReject>>
    ELSE LET special == IsReactionCall(toolName, args)
             text == IF special THEN ReactionText(args) ELSE ToolText(toolName)
         IN  /\ currentToolText' = text
             /\ IF SkipsSameContent(text)
                THEN /\ lastOp' = Op("onTool", "skip")
                     /\ UNCHANGED <<tasks, calls, chat, lastToolEdit>>
                ELSE /\ calls < MaxCalls
                     /\ tasks' = tasks \cup
                            {Task(calls + 1, IF special THEN "editReaction" ELSE "editTool",
                                  placeholderMessageId, text, FALSE)}
                     /\ calls' = calls + 1
                     /\ lastToolEdit' = [msgId |-> placeholderMessageId, text |-> text]
                     /\ UNCHANGED chat
                     /\ lastOp' = Op("onTool", "await")
             /\ UNCHANGED <<config, placeholderMessageId, active, currentDisplayText, anyReject>>

\* history: the generator promises a later onTool() has overtaken by changing the text
Overtake(t, ts) ==
    {IF g.pc \in GeneratorPcs /\ g.tid < t.tid /\ g.msgId = t.msgId
           /\ currentToolText # currentDisplayText
     THEN [g EXCEPT !.overtaken = TRUE] ELSE g : g \in ts}

\* the reaction branch without its `return`: it falls through to the generator
OnToolReactionEditResolved_FallsThrough(t) ==
    /\ t \in TasksAt("editReaction")
    /\ chat' = Edited(t.msgId, t.text)
    /\ currentDisplayText' = currentToolText
    /\ tasks' = (tasks \ {t}) \cup
          (IF config.generateToolDescription /\ placeholderMessageId # NoId
           THEN {Task(t.tid, "generateToolDescription", placeholderMessageId, "", FALSE)}
           ELSE {})
    /\ lastOp' = Op("onTool", "edited")
    /\ UNCHANGED <<config, placeholderMessageId, active, currentToolText, calls, lastToolEdit, anyReject>>

\* after `await sender.edit(placeholderMessageId, currentToolText)` of the reaction
\* branch resolved: currentDisplayText = currentToolText; return
OnToolReactionEditResolved(t) ==
    /\ t \in TasksAt("editReaction")
    /\ chat' = Edited(t.msgId, t.text)
    /\ currentDisplayText' = currentToolText
    /\ tasks' = Overtake(t, tasks \ {t})
    /\ lastOp' = Op("onTool", "edited")
    /\ UNCHANGED <<config, placeholderMessageId, active, currentToolText, calls, lastToolEdit, anyReject>>

\* after `await sender.edit(placeholderMessageId, currentToolText)` of the generic
\* branch resolved: currentDisplayText = currentToolText, then the generator is started
OnToolEditResolved(t) ==
    /\ t \in TasksAt("editTool")
    /\ chat' = Edited(t.msgId, t.text)
    /\ currentDisplayText' = currentToolText
    /\ LET launch == config.generateToolDescription /\ placeholderMessageId # NoId
       IN  tasks' = Overtake(t, tasks \ {t}) \cup
              (IF launch
               THEN {Task(t.tid, "generateToolDescription", placeholderMessageId, "", FALSE)}
               ELSE {})
    /\ lastOp' = Op("onTool", "edited")
    /\ UNCHANGED <<config, placeholderMessageId, active, currentToolText, calls, lastToolEdit, anyReject>>

\* either `await sender.edit(...)` of onTool rejected: catch (err) { log }
OnToolEditRejected(t) ==
    /\ t \in TasksAt("editReaction") \cup TasksAt("editTool")
    /\ tasks' = tasks \ {t}
    /\ anyReject' = TRUE
    /\ lastOp' = Op("onTool", "logged")
    /\ UNCHANGED <<config, ctl, calls, chat, lastToolEdit>>

----------------------------------------------------------------------------
\* cleanup()

\* if (!active || !placeholderMessageId) return;
CleanupReturnsEarly == ~active \/ placeholderMessageId = NoId

\* const shouldDelete = config.deleteOnResponse !== false
shouldDelete == config.deleteOnResponse

\* history: the generator promises that were pending when a cleanup() completed
Cleaned(ts) == {IF g.pc \in GeneratorPcs THEN [g EXCEPT !.cleaned = TRUE] ELSE g : g \in ts}

\* placeholderMessageId = undefined; active = false; currentToolText = ""
Reset(ts) ==
    /\ placeholderMessageId' = NoId
    /\ active' = FALSE
    /\ currentToolText' = ""
    /\ tasks' = Cleaned(ts)
    /\ UNCHANGED currentDisplayText

Cleanup ==
    IF CleanupReturnsEarly
    THEN /\ lastOp' = Op("cleanup", "noop")
         /\ UNCHANGED <<config, ctl, tasks, calls, chat, lastToolEdit, anyReject>>
    ELSE IF shouldDelete
         THEN /\ calls < MaxCalls
              /\ tasks' = tasks \cup {Task(calls + 1, "delete", placeholderMessageId, "", FALSE)}
              /\ calls' = calls + 1
              /\ lastOp' = Op("cleanup", "await")
              /\ UNCHANGED <<config, ctl, chat, lastToolEdit, anyReject>>
         ELSE /\ Reset(tasks)
              /\ lastOp' = Op("cleanup", "kept")
              /\ UNCHANGED <<config, calls, chat, lastToolEdit, anyReject>>

\* `await sender.delete(placeholderMessageId)` resolved, then the reset
CleanupDeleteResolved(t) ==
    /\ t \in TasksAt("delete")
    /\ chat' = Deleted(t.msgId)
    /\ Reset(tasks \ {t})
    /\ lastOp' = Op("cleanup", "deleted")
    /\ UNCHANGED <<config, calls, lastToolEdit, anyReject>>

\* cleanup() without the try/catch around the delete
CleanupDeleteRejected_Uncaught(t) ==
    /\ t \in TasksAt("delete")
    /\ tasks' = tasks \ {t}
    /\ anyReject' = TRUE
    /\ lastOp' = Op("cleanup", "threw")
    /\ UNCHANGED <<config, ctl, calls, chat, lastToolEdit>>

\* cleanup() with the reset inside the try block, after the delete
CleanupDeleteRejected_ResetInTry(t) ==
    /\ t \in TasksAt("delete")
    /\ tasks' = tasks \ {t}
    /\ anyReject' = TRUE
    /\ lastOp' = Op("cleanup", "logged")
    /\ UNCHANGED <<config, ctl, calls, chat, lastToolEdit>>

\* `await sender.delete(placeholderMessageId)` rejected: catch (err) { log }, then the reset
CleanupDeleteRejected(t) ==
    /\ t \in TasksAt("delete")
    /\ Reset(tasks \ {t})
    /\ anyReject' = TRUE
    /\ lastOp' = Op("cleanup", "logged")
    /\ UNCHANGED <<config, calls, chat, lastToolEdit>>

----------------------------------------------------------------------------

Next ==
    \/ \E userMessage \in BOOLEAN : Start(userMessage) /\ UNCHANGED <<regVars, genVars>>
    \/ \E t \in tasks : StartSendResolved(t) /\ UNCHANGED <<regVars, genVars>>
    \/ \E t \in tasks : StartSendRejected(t) /\ UNCHANGED <<regVars, genVars>>
    \/ \E t \in tasks, smartText \in SmartTexts : GenerateReactionResolved(t, smartText) /\ UNCHANGED <<regVars, genVars>>
    \/ \E t \in tasks, smartText \in SmartTexts : GenerateToolDescriptionResolved(t, smartText) /\ UNCHANGED <<regVars, genVars>>
    \/ \E t \in tasks : GeneratorRejected(t) /\ UNCHANGED <<regVars, genVars>>
    \/ \E t \in tasks : SmartEditResolved(t) /\ UNCHANGED <<regVars, genVars>>
    \/ \E t \in tasks : SmartEditRejected(t) /\ UNCHANGED <<regVars, genVars>>
    \/ \E toolName \in ToolNames, args \in ToolArgs : OnTool(toolName, args) /\ UNCHANGED <<regVars, genVars>>
    \/ \E t \in tasks : OnToolReactionEditResolved(t) /\ UNCHANGED <<regVars, genVars>>
    \/ \E t \in tasks : OnToolEditResolved(t) /\ UNCHANGED <<regVars, genVars>>
    \/ \E t \in tasks : OnToolEditRejected(t) /\ UNCHANGED <<regVars, genVars>>
    \/ Cleanup /\ UNCHANGED <<regVars, genVars>>
    \/ \E t \in tasks : CleanupDeleteResolved(t) /\ UNCHANGED <<regVars, genVars>>
    \/ \E t \in tasks : CleanupDeleteRejected(t) /\ UNCHANGED <<regVars, genVars>>

Spec == Init /\ [][Next]_vars

----------------------------------------------------------------------------
\* The controller under an orchestrator that awaits every call: start(), onTool()
\* and cleanup() are called only when no earlier call is suspended at an await.  The
\* refinement handlers are not awaited by any call (the generator promise is not
\* returned), so they run whenever their promise settles.

\* every `await placeholder.start/onTool/cleanup(...)` of the caller has returned:
\* what is pending is a generator promise or a refinement handler
NoCallInFlight == \A t \in tasks : t.pc \in GeneratorPcs \cup {"editSmartReaction", "editSmartTool"}

NextAwaited ==
    \/ NoCallInFlight /\ \E userMessage \in BOOLEAN : Start(userMessage) /\ UNCHANGED <<regVars, genVars>>
    \/ \E t \in tasks : StartSendResolved(t) /\ UNCHANGED <<regVars, genVars>>
    \/ \E t \in tasks : StartSendRejected(t) /\ UNCHANGED <<regVars, genVars>>
    \/ \E t \in tasks, smartText \in SmartTexts : GenerateReactionResolved(t, smartText) /\ UNCHANGED <<regVars, genVars>>
    \/ \E t \in tasks, smartText \in SmartTexts : GenerateToolDescriptionResolved(t, smartText) /\ UNCHANGED <<regVars, genVars>>
    \/ \E t \in tasks : GeneratorRejected(t) /\ UNCHANGED <<regVars, genVars>>
    \/ \E t \in tasks : SmartEditResolved(t) /\ UNCHANGED <<regVars, genVars>>
    \/ \E t \in tasks : SmartEditRejected(t) /\ UNCHANGED <<regVars, genVars>>
    \/ NoCallInFlight /\ \E toolName \in ToolNames, args \in ToolArgs : OnTool(toolName, args) /\ UNCHANGED <<regVars, genVars>>
    \/ \E t \in tasks : OnToolReactionEditResolved(t) /\ UNCHANGED <<regVars, genVars>>
    \/ \E t \in tasks : OnToolEditResolved(t) /\ UNCHANGED <<regVars, genVars>>
    \/ \E t \in tasks : OnToolEditRejected(t) /\ UNCHANGED <<regVars, genVars>>
    \/ NoCallInFlight /\ Cleanup /\ UNCHANGED <<regVars, genVars>>
    \/ \E t \in tasks : CleanupDeleteResolved(t) /\ UNCHANGED <<regVars, genVars>>
    \/ \E t \in tasks : CleanupDeleteRejected(t) /\ UNCHANGED <<regVars, genVars>>

SpecAwaited == Init /\ [][NextAwaited]_vars

----------------------------------------------------------------------------
\* The conversation registry of the controller: start() deletes a stale session it
\* finds registered for the conversation before it sends, registers the session it
\* creates, and cleanup() removes it.

RegTask(c, pc, msgId, stale) == [c |-> c, pc |-> pc, msgId |-> msgId, stale |-> stale]

RegCall(op, c, msgId, stale) == [op |-> op, c |-> c, msgId |-> msgId, stale |-> stale]

\* start() that sends without looking at the registry
RegStart_IgnoresRegistry(c) ==
    IF ~config.enabled \/ ctrl[c].active
    THEN UNCHANGED <<config, chat, regVars>>
    ELSE /\ Len(regLog) + 2 <= MaxRegCalls
         /\ regTasks' = regTasks \cup {RegTask(c, "send", NoId, registry)}
         /\ regLog' = Append(regLog, RegCall("send", c, NoId, registry))
         /\ UNCHANGED <<config, chat, registry, ctrl>>

\* start(): no-op if disabled or Active; a stale registered session is deleted
\* (best-effort) before proceeding
RegStart(c) ==
    IF ~config.enabled \/ ctrl[c].active
    THEN UNCHANGED <<config, chat, regVars>>
    ELSE /\ Len(regLog) + 2 <= MaxRegCalls
         /\ IF registry # NoId
            THEN /\ regTasks' = regTasks \cup {RegTask(c, "staleDelete", registry, registry)}
                 /\ regLog' = Append(regLog, RegCall("delete", c, registry, NoId))
                 /\ registry' = NoId
            ELSE /\ regTasks' = regTasks \cup {RegTask(c, "send", NoId, NoId)}
                 /\ regLog' = Append(regLog, RegCall("send", c, NoId, NoId))
                 /\ UNCHANGED registry
         /\ UNCHANGED <<config, chat, ctrl>>

\* the delete of the stale message settled (errors ignored): the send follows
RegStaleDeleteSettled(t, ok) ==
    /\ t \in regTasks
    /\ t.pc = "staleDelete"
    /\ chat' = IF ok THEN Deleted(t.msgId) ELSE chat
    /\ regTasks' = (regTasks \ {t}) \cup {RegTask(t.c, "send", NoId, t.stale)}
    /\ regLog' = Append(regLog, RegCall("send", t.c, NoId, t.stale))
    /\ UNCHANGED <<config, registry, ctrl>>

\* the send resolved: Active, identifier recorded, session registered
RegSendResolved(t) ==
    /\ t \in regTasks
    /\ t.pc = "send"
    /\ \E text \in getRandomMessage : chat' = Sent(text)
    /\ ctrl' = [ctrl EXCEPT ![t.c] = [active |-> TRUE, messageId |-> Len(chat) + 1]]
    /\ registry' = Len(chat) + 1
    /\ regTasks' = regTasks \ {t}
    /\ UNCHANGED <<config, regLog>>

\* the send rejected: log and remain Inactive
RegSendRejected(t) ==
    /\ t \in regTasks
    /\ t.pc = "send"
    /\ regTasks' = regTasks \ {t}
    /\ UNCHANGED <<config, chat, registry, ctrl, regLog>>

\* remove the session from the registry; reset to Inactive
RegReset(c) ==
    /\ registry' = IF registry = ctrl[c].messageId THEN NoId ELSE registry
    /\ ctrl' = [ctrl EXCEPT ![c] = [active |-> FALSE, messageId |-> NoId]]

\* cleanup(): no-op if Inactive; delete if configured, then remove and reset
RegCleanup(c) ==
    IF ~ctrl[c].active
    THEN UNCHANGED <<config, chat, regVars>>
    ELSE IF shouldDelete
         THEN /\ Len(regLog) < MaxRegCalls
              /\ regTasks' = regTasks \cup {RegTask(c, "delete", ctrl[c].messageId, NoId)}
              /\ regLog' = Append(regLog, RegCall("delete", c, ctrl[c].messageId, NoId))
              /\ UNCHANGED <<config, chat, registry, ctrl>>
         ELSE /\ RegReset(c)
              /\ UNCHANGED <<config, chat, regTasks, regLog>>

\* the delete of cleanup() settled: the reset happens regardless of its outcome
RegCleanupDeleteSettled(t, ok) ==
    /\ t \in regTasks
    /\ t.pc = "delete"
    /\ chat' = IF ok THEN Deleted(t.msgId) ELSE chat
    /\ RegReset(t.c)
    /\ regTasks' = regTasks \ {t}
    /\ UNCHANGED <<config, regLog>>

RegNext ==
    \/ \E c \in Controllers : RegStart(c) /\ UNCHANGED <<mainVars, genVars>>
    \/ \E t \in regTasks, ok \in BOOLEAN : RegStaleDeleteSettled(t, ok) /\ UNCHANGED <<mainVars, genVars>>
    \/ \E t \in regTasks : RegSendResolved(t) /\ UNCHANGED <<mainVars, genVars>>
    \/ \E t \in regTasks : RegSendRejected(t) /\ UNCHANGED <<mainVars, genVars>>
    \/ \E c \in Controllers : RegCleanup(c) /\ UNCHANGED <<mainVars, genVars>>
    \/ \E t \in regTasks, ok \in BOOLEAN : RegCleanupDeleteSettled(t, ok) /\ UNCHANGED <<mainVars, genVars>>

SpecRegistry == Init /\ [][RegNext]_vars

----------------------------------------------------------------------------
\* The smart generator (createSmartPlaceholderGenerator).  An invocation of
\* generateReaction or generateToolDescription runs synchronously up to
\* `await complete(...)`; the abort timer and the settling of the completion are
\* steps of their own.  A text is a sequence of one-character strings where the
\* code looks inside it (trim), and a history message carries the lengths of its
\* sender and body where the code only measures it.

\* a string is truthy
Truthy(s) == s # Undefined /\ s # ""

\* config.personality, config.systemPrompt: absent, empty or a text
GenConfigs == [personality : {Undefined, "", "P"}, systemPrompt : {Undefined, "", "S"}]

\* loadSoulPersonality: undefined (no agentDir, unreadable file) or the text of the file
Souls == {Undefined, "soul"}

\* let personality = config.personality;
\* if (!personality && !config.systemPrompt) personality = await loadSoulPersonality(agentDir)
LoadPersonality(cfg, file) ==
    IF ~Truthy(cfg.personality) /\ ~Truthy(cfg.systemPrompt) THEN file ELSE cfg.personality

DEFAULT_SYSTEM_PROMPT == "You are generating a brief, natural reaction to show while processing a user's message."

DEFAULT_TOOL_SYSTEM_PROMPT == "You are generating a brief status message while using a tool."

buildReactionSystemPrompt(p) ==
    IF Truthy(p)
    THEN "You are generating a brief, natural reaction while processing a user's message. Your personality: " \o p
    ELSE DEFAULT_SYSTEM_PROMPT

\* const systemPrompt = config.systemPrompt ?? buildReactionSystemPrompt(personality)
ReactionSystemPrompt ==
    IF genConfig.systemPrompt # Undefined
    THEN genConfig.systemPrompt
    ELSE buildReactionSystemPrompt(personality)

\* HistoryMessage: sender and body, by their lengths in characters
HistoryMessages == [sender : {3}, body : {494, 994, 995}]

Histories == UNION {[1..n -> HistoryMessages] : n \in 0..MaxHistory}

UserMessages == {"hi"}

\* the length of `${history[i].sender}: ${history[i].body}\n`
LineLength(message) == message.sender + 2 + message.body + 1

\* the history loop with `continue` in place of `break`
RECURSIVE HistoryText_Continue(_, _, _, _)
HistoryText_Continue(h, i, chars, historyText) ==
    IF i = 0
    THEN historyText
    ELSE IF chars + LineLength(h[i]) > MAX_HISTORY_CHARS
         THEN HistoryText_Continue(h, i - 1, chars, historyText)
         ELSE HistoryText_Continue(h, i - 1, chars + LineLength(h[i]), <<i>> \o historyText)

\* for (let i = history.length - 1; i >= 0; i--) { if (chars + line.length >
\* MAX_HISTORY_CHARS) break; historyText = line + historyText; chars += line.length }
\* The text is the sequence of the (1-based) positions of its lines.
RECURSIVE HistoryText(_, _, _, _)
HistoryText(h, i, chars, historyText) ==
    IF i = 0
    THEN historyText
    ELSE IF chars + LineLength(h[i]) > MAX_HISTORY_CHARS
         THEN historyText
         ELSE HistoryText(h, i - 1, chars + LineLength(h[i]), <<i>> \o historyText)

\* let userContent = userMessage; with a non-empty historyText it becomes
\* `[Conversation so far]\n${historyText}\n[Now they say]\n${userMessage}`
UserContent(userMessage, h) ==
    LET historyText == IF Len(h) > 0 THEN HistoryText(h, Len(h), 0, <<>>) ELSE <<>>
    IN  IF historyText # <<>>
        THEN [conversationSoFar |-> historyText, nowTheySay |-> TRUE, userMessage |-> userMessage]
        ELSE [conversationSoFar |-> <<>>, nowTheySay |-> FALSE, userMessage |-> userMessage]

\* args ? JSON.stringify(args, null, 0) : ""
ArgsStr(args) ==
    IF args.kind = "absent" THEN ""
    ELSE IF args.kind = "number" THEN "{\"message\":" \o args.message \o "}"
    ELSE "{\"message\":\"" \o args.message \o "\"}"

\* `Tool: ${toolName}\nArgs: ${argsStr}`
UserPrompt(toolName, args) ==
    [conversationSoFar |-> <<>>, nowTheySay |-> FALSE,
     userMessage |-> "Tool: " \o toolName \o "\nArgs: " \o ArgsStr(args)]

\* result.content of a completion: no block, a block that is not text, blank
\* text, text in one block, text split over two blocks with blanks around it
Contents ==
    {<<>>,
     <<[type |-> "toolCall", text |-> <<>>]>>,
     <<[type |-> "text", text |-> <<" ">>]>>,
     <<[type |-> "text", text |-> <<"h", "m", "m">>]>>,
     <<[type |-> "toolCall", text |-> <<>>], [type |-> "text", text |-> <<" ", "w">>],
       [type |-> "text", text |-> <<"o", "w", " ">>]>>}

\* .filter((c) => c.type === "text").map((c) => c.text).join("")
RECURSIVE JoinText(_)
JoinText(content) ==
    IF content = <<>> THEN <<>>
    ELSE (IF Head(content).type = "text" THEN Head(content).text ELSE <<>>)
             \o JoinText(Tail(content))

\* .trim()
RECURSIVE Trim(_)
Trim(s) ==
    IF s = <<>> THEN s
    ELSE IF Head(s) = " " THEN Trim(Tail(s))
    ELSE IF s[Len(s)] = " " THEN Trim(SubSeq(s, 1, Len(s) - 1))
    ELSE s

\* the characters as one string
RECURSIVE Str(_)
Str(s) == IF s = <<>> THEN "" ELSE Head(s) \o Str(Tail(s))

\* if (result.content && result.content.length > 0) { ...; return text || undefined }
\* return undefined
ResultText(content) ==
    IF Len(content) > 0
    THEN LET text == Str(Trim(JoinText(content)))
         IN  IF text # "" THEN text ELSE Undefined
    ELSE Undefined

\* the names of the errors `await complete(...)` rejects with
ErrorNames == {"AbortError", "Error"}

\* An invocation suspended at `await complete(...)`: caller is the call of the
\* controller that made it (0: none), aborted says that the timer has called
\* controller.abort(), completions counts the calls of complete().
Invocation(caller, kind, systemPrompt, userContent) ==
    [id |-> genCalls + 1, caller |-> caller, kind |-> kind, systemPrompt |-> systemPrompt,
     userContent |-> userContent, aborted |-> FALSE, completions |-> 1]

Invoke(g) ==
    /\ gens' = gens \cup {g}
    /\ genCalls' = genCalls + 1
    /\ UNCHANGED <<genConfig, soul, personality, history, genReturn>>

\* generateReaction up to `await complete(model, context, ...)`
GenerateReaction(caller, userMessage, h) ==
    Invoke(Invocation(caller, "reaction", ReactionSystemPrompt, UserContent(userMessage, h)))

\* generateToolDescription up to `await complete(model, context, ...)`
GenerateToolDescription(caller, toolName, args) ==
    Invoke(Invocation(caller, "tool", DEFAULT_TOOL_SYSTEM_PROMPT, UserPrompt(toolName, args)))

\* setTimeout(() => controller.abort(), timeoutMs) fires
TimerFires(g) ==
    /\ g \in gens
    /\ ~g.aborted
    /\ gens' = (gens \ {g}) \cup {[g EXCEPT !.aborted = TRUE]}
    /\ UNCHANGED <<genConfig, soul, personality, history, genCalls, genReturn>>

Return(g, outcome, value) ==
    /\ gens' = gens \ {g}
    /\ genReturn' = [id |-> g.id, kind |-> g.kind, value |-> value, raised |-> FALSE,
                     aborted |-> g.aborted, outcome |-> outcome, completions |-> g.completions]
    /\ UNCHANGED <<genConfig, soul, personality, history, genCalls>>

\* `await complete(...)` resolved, before or after the timer fired: clearTimeout,
\* and the text of the result, or undefined, is returned
CompleteResolved(g, content) ==
    /\ g \in gens
    /\ Return(g, IF ResultText(content) = Undefined THEN "empty" ELSE "text", ResultText(content))

\* `await complete(...)` rejected: catch (err) { clearTimeout; log; return undefined }.
\* An AbortError comes from the signal, so after the timer fired.
CompleteRejected(g, name) ==
    /\ g \in gens
    /\ name = "AbortError" => g.aborted
    /\ Return(g, name, Undefined)

\* the generator on its own, handed to a controller that is not started: any
\* generator configuration, personality file and history
InitGen ==
    /\ config \in {c \in Configs : c.generateReaction /\ c.generateToolDescription
                                      /\ c.enabled /\ c.deleteOnResponse}
    /\ InitController
    /\ genConfig \in GenConfigs
    /\ soul \in Souls
    /\ personality = LoadPersonality(genConfig, soul)
    /\ history \in Histories
    /\ gens = {}
    /\ genCalls = 0
    /\ genReturn = NoReturn

GenNext ==
    \/ /\ genCalls < MaxGenCalls
       /\ \E userMessage \in UserMessages : GenerateReaction(0, userMessage, history)
       /\ UNCHANGED <<config, chat, mainVars, regVars>>
    \/ /\ genCalls < MaxGenCalls
       /\ \E toolName \in ToolNames, args \in ToolArgs : GenerateToolDescription(0, toolName, args)
       /\ UNCHANGED <<config, chat, mainVars, regVars>>
    \/ \E g \in gens : TimerFires(g) /\ UNCHANGED <<config, chat, mainVars, regVars>>
    \/ \E g \in gens, content \in Contents : CompleteResolved(g, content) /\ UNCHANGED <<config, chat, mainVars, regVars>>
    \/ \E g \in gens, name \in ErrorNames : CompleteRejected(g, name) /\ UNCHANGED <<config, chat, mainVars, regVars>>

SpecGen == InitGen /\ [][GenNext]_vars

----------------------------------------------------------------------------
\* The controller with the smart generator as its config.generateReaction and
\* config.generateToolDescription: a call that starts a generator invokes it in the
\* same step, and the refinement handler runs with what the invocation returns.

\* what the handler receives; "" stands for undefined
SmartText(value) == IF value = Undefined THEN "" ELSE value

\* the step has started a generator promise for the call of t
Launched(t, pc) == \E u \in tasks' : u.tid = t.tid /\ u.pc = pc

\* the .then handler of the call that made the invocation g
Handler(g, value) ==
    \E t \in tasks :
        /\ t.tid = g.caller
        /\ \/ g.kind = "reaction" /\ GenerateReactionResolved(t, SmartText(value))
           \/ g.kind = "tool" /\ GenerateToolDescriptionResolved(t, SmartText(value))

SmartNext ==
    \/ calls < MaxSmartCalls /\ \E userMessage \in BOOLEAN : Start(userMessage) /\ UNCHANGED <<regVars, genVars>>
    \/ \E t \in tasks :
          /\ StartSendResolved(t)
          /\ IF Launched(t, "generateReaction")
             THEN \E userMessage \in UserMessages : GenerateReaction(t.tid, userMessage, history)
             ELSE UNCHANGED genVars
          /\ UNCHANGED regVars
    \/ \E t \in tasks : StartSendRejected(t) /\ UNCHANGED <<regVars, genVars>>
    \/ \E g \in gens : TimerFires(g) /\ UNCHANGED <<config, chat, mainVars, regVars>>
    \/ \E g \in gens, content \in Contents :
          CompleteResolved(g, content) /\ Handler(g, ResultText(content)) /\ UNCHANGED regVars
    \/ \E g \in gens, name \in ErrorNames :
          CompleteRejected(g, name) /\ Handler(g, Undefined) /\ UNCHANGED regVars
    \/ \E t \in tasks : SmartEditResolved(t) /\ UNCHANGED <<regVars, genVars>>
    \/ \E t \in tasks : SmartEditRejected(t) /\ UNCHANGED <<regVars, genVars>>
    \/ calls < MaxSmartCalls /\ \E toolName \in ToolNames, args \in ToolArgs : OnTool(toolName, args) /\ UNCHANGED <<regVars, genVars>>
    \/ \E t \in tasks : OnToolReactionEditResolved(t) /\ UNCHANGED <<regVars, genVars>>
    \/ \E t \in tasks :
          /\ OnToolEditResolved(t)
          /\ IF Launched(t, "generateToolDescription")
             THEN \E toolName \in ToolNames, args \in ToolArgs :
                     /\ ToolText(toolName) = t.text
                     /\ ~IsReactionCall(toolName, args)
                     /\ GenerateToolDescription(t.tid, toolName, args)
             ELSE UNCHANGED genVars
          /\ UNCHANGED regVars
    \/ \E t \in tasks : OnToolEditRejected(t) /\ UNCHANGED <<regVars, genVars>>
    \/ calls < MaxSmartCalls /\ Cleanup /\ UNCHANGED <<regVars, genVars>>
    \/ \E t \in tasks : CleanupDeleteResolved(t) /\ UNCHANGED <<regVars, genVars>>
    \/ \E t \in tasks : CleanupDeleteRejected(t) /\ UNCHANGED <<regVars, genVars>>

SpecSmart == Init /\ [][SmartNext]_vars

TypeOK ==
    /\ config \in Configs
    /\ placeholderMessageId \in 0..MaxCalls
    /\ active \in BOOLEAN
    /\ calls \in 0..MaxCalls

----------------------------------------------------------------------------
\* Properties

EditPcs == {"editReaction", "editTool"}

SmartEditPcs == {"editSmartReaction", "editSmartTool"}

\* the continuations a step has created (a call has one continuation at a time, so
\* tid and pc identify it; the history flags do not)
Issued == {u \in tasks' : \A t \in tasks : t.tid # u.tid \/ t.pc # u.pc}

\* the step has run the continuation t
Settled(t) == \A u \in tasks' : u.tid # t.tid \/ u.pc # t.pc

\* the messages the transport has created and not deleted
Live == {id \in DOMAIN chat : ~chat[id].deleted}

\* C1: while the controller is Active no transport send is issued, and a call of
\* start() on an Active controller changes neither the pending transport calls nor
\* the chat.
C1_NoSendWhileActive ==
    [][active =>
          /\ \A t \in Issued : t.pc # "send"
          /\ lastOp' = Op("start", "noop") => tasks' = tasks /\ chat' = chat]_vars

C1_Witness ==
    /\ config.enabled
    /\ active
    /\ lastOp = Op("start", "noop")
    /\ Len(chat) = 1

\* C2: with deleteOnResponse at its default and no transport call rejected, at most
\* one message is sent and not yet deleted.
C2_AtMostOneLive ==
    (config.deleteOnResponse /\ ~anyReject) => Cardinality(Live) <= 1

\* C3 as stated: an edit onTool() issues never carries the text of the edit onTool()
\* issued before it for the same placeholder, whether that earlier edit (no longer in
\* flight) was resolved or rejected.
C3_NoRepeatedToolEdit ==
    [][\A t \in Issued :
          (t.pc \in EditPcs /\ \A u \in tasks : u.pc \notin EditPcs)
              => ~(lastToolEdit.msgId = t.msgId /\ lastToolEdit.text = t.text)]_vars

\* C3 as amended: every edit onTool() issues carries a text that differs from the
\* recorded displayed text, and a call whose text equals it issues nothing.
C3_NoEditOfDisplayedText ==
    [][/\ \A t \in Issued : t.pc \in EditPcs => t.text # currentDisplayText
       /\ lastOp' = Op("onTool", "skip") =>
              /\ tasks' = tasks
              /\ currentToolText' = currentDisplayText]_vars

C3_Witness ==
    /\ lastOp = Op("onTool", "skip")
    /\ lastToolEdit.msgId = placeholderMessageId
    /\ lastToolEdit.text = currentDisplayText
    /\ chat[placeholderMessageId].text = currentDisplayText

\* C4: while the controller is Active, currentDisplayText is the text the transport
\* last wrote to the current placeholder message.
C4_DisplayTextIsTransportText ==
    active =>
        /\ placeholderMessageId \in DOMAIN chat
        /\ currentDisplayText = chat[placeholderMessageId].text

\* C5: a completed cleanup() leaves isActive() false, and a generator promise that
\* was pending when a cleanup() completed issues no transport edit when it resolves,
\* whether or not a new start() has made the controller Active again.
C5_LateRefinementDiscarded ==
    [][/\ (lastOp'.op = "cleanup" /\ lastOp'.result \in {"kept", "deleted", "logged"})
            => ~active'
       /\ \A t \in tasks :
            (t.pc \in GeneratorPcs /\ t.cleaned /\ Settled(t)) => Issued = {}]_vars

C5_Witness ==
    /\ lastOp.result = "discarded"
    /\ active
    /\ placeholderMessageId = 2

\* C6: a generator promise that resolves after a later onTool() has changed the
\* displayed text issues no transport edit and leaves the displayed text alone.
C6_OvertakenRefinementNotApplied ==
    [][\A t \in tasks :
          (t.pc \in GeneratorPcs /\ t.overtaken /\ Settled(t))
              => Issued = {} /\ currentDisplayText' = currentDisplayText]_vars

\* C7: whichever transport call or generator rejects, no exception leaves start(),
\* onTool() or cleanup(): the rejection ends in a catch that logs, and the
\* continuation that awaited it is finished.
C7_NoExceptionEscapes == lastOp.result # "threw"

C7_Witness ==
    /\ lastOp = Op("cleanup", "logged")
    /\ anyReject
    /\ tasks = {}

\* C8: a cleanup() on an Active controller invokes the transport delete exactly when
\* deleteOnResponse is not false, and however the delete ends the controller is
\* Inactive with no message identifier once cleanup() has completed.
C8_CleanupAlwaysResets ==
    lastOp.op = "cleanup" =>
        /\ lastOp.result \in {"kept", "deleted", "logged"}
              => ~active /\ placeholderMessageId = NoId /\ currentToolText = ""
        /\ lastOp.result = "kept" => ~config.deleteOnResponse
        /\ lastOp.result \in {"await", "deleted", "logged"} => config.deleteOnResponse
        /\ lastOp.result = "await" =>
              \E t \in TasksAt("delete") : t.tid = calls /\ t.msgId = placeholderMessageId

C8_Witness ==
    /\ lastOp = Op("cleanup", "logged")
    /\ ~active
    /\ Live # {}

\* C9: the step in which start()'s send rejects changes neither active nor the
\* message identifier nor the displayed text and starts no generator; a controller
\* that was Inactive is Inactive with no identifier afterwards and start() does not
\* return early on it.
C9_SendRejectionLeavesInactive ==
    [][\A t \in TasksAt("send") :
          (Settled(t) /\ chat' = chat) =>
              /\ active' = active
              /\ placeholderMessageId' = placeholderMessageId
              /\ currentDisplayText' = currentDisplayText
              /\ tasks' = tasks \ {t}
              /\ ~active => ~active' /\ placeholderMessageId' = NoId /\ ~StartReturnsEarly']_vars

C9_Witness ==
    /\ lastOp = Op("start", "logged")
    /\ ~active
    /\ placeholderMessageId = NoId
    /\ chat = <<>>
    /\ config.generateReaction

\* C10: whenever start() finds a stale message registered for the conversation, the
\* transport delete of that message is issued before the transport send of the new
\* placeholder.
C10_StaleDeletedBeforeSend ==
    \A j \in DOMAIN regLog :
        (regLog[j].op = "send" /\ regLog[j].stale # NoId) =>
            \E i \in 1..(j - 1) :
                /\ regLog[i].op = "delete"
                /\ regLog[i].msgId = regLog[j].stale
                /\ regLog[i].c = regLog[j].c

C10_Witness ==
    /\ Len(chat) = 2
    /\ chat[1].deleted
    /\ ~chat[2].deleted
    /\ registry = 2
    /\ \E j \in DOMAIN regLog : regLog[j].op = "send" /\ regLog[j].stale = 1

\* C12: a call onTool("reaction", {message: m}) with a non-empty string m on an
\* Active controller sets the tool text to ":thought: " followed by m; it issues an
\* edit of the current placeholder with exactly that text unless that text is the
\* displayed one, and when that edit resolves no generator is started.
ReactionTexts ==
    {":thought: " \o a.message : a \in {b \in ToolArgs : b.kind = "string" /\ b.message # ""}}

C12_ReactionShownVerbatim ==
    [][/\ (lastOp'.op = "onTool" /\ lastOp'.result \in {"await", "skip"}
            /\ currentToolText' \in ReactionTexts) =>
              IF currentToolText' = currentDisplayText
              THEN Issued = {}
              ELSE \E t \in Issued :
                      /\ Issued = {t}
                      /\ t.pc = "editReaction"
                      /\ t.text = currentToolText'
                      /\ t.msgId = placeholderMessageId
       /\ \A t \in Issued : t.pc = "editReaction" => t.text \in ReactionTexts
       /\ \A t \in TasksAt("editReaction") :
              Settled(t) => \A u \in tasks' : u.pc # "generateToolDescription" \/ u.tid # t.tid]_vars

C12_Witness ==
    /\ config.generateToolDescription
    /\ lastOp = Op("onTool", "edited")
    /\ active
    /\ currentDisplayText = ":thought: hi"
    /\ chat[placeholderMessageId].text = ":thought: hi"
    /\ tasks = {}

\* C13: for every tool name the generic text is "{emoji} {label}..." with the emoji
\* and label of toolDisplay[toolName], ":wrench:" for a missing emoji and the tool
\* name for a missing label, and every edit of the generic branch carries such a
\* text for the current placeholder.
ExpectedToolText(toolName) ==
    IF toolName = "foo" THEN ":tools: Working..."
    ELSE IF toolName = "bar" THEN ":wrench: Look..."
    ELSE ":wrench: " \o toolName \o "..."

C13_GenericToolText ==
    /\ \A toolName \in ToolNames : ToolText(toolName) = ExpectedToolText(toolName)
    /\ \A t \in TasksAt("editTool") :
          /\ \E toolName \in ToolNames : t.text = ExpectedToolText(toolName)
          /\ t.msgId # NoId
    /\ lastOp = Op("onTool", "await") =>
          \E t \in tasks : t.tid = calls /\ t.text = currentToolText
                              /\ t.msgId = placeholderMessageId

C13_Witness ==
    /\ lastOp = Op("onTool", "edited")
    /\ active
    /\ currentDisplayText = ":wrench: reaction..."
    /\ chat[placeholderMessageId].text = ":wrench: reaction..."

\* C17: when every call is awaited before the next one, no transport edit (of
\* onTool() or of a refinement handler) is issued while an earlier edit of the
\* controller is still in flight.
C17_EditsInSequence ==
    [][\A t \in Issued :
          t.pc \in EditPcs \cup SmartEditPcs
              => \A u \in tasks : u.pc \notin EditPcs \cup SmartEditPcs]_vars

\* C18: the step in which the send of start() or the edit of onTool() resolves ends
\* the call, also when it has started a generator: whatever is left pending is a
\* generator promise or a refinement handler, nothing the caller awaits; and with
\* the generator pending the controller is Active and neither onTool() nor cleanup()
\* returns early.
C18_CallDoesNotAwaitGenerator ==
    [][\A t \in TasksAt("send") \cup TasksAt("editTool") :
          (Settled(t) /\ chat' # chat) =>
              /\ NoCallInFlight'
              /\ (\E g \in tasks' : g.tid = t.tid) =>
                    /\ \A g \in tasks' : g.tid = t.tid => g.pc \in GeneratorPcs
                    /\ active'
                    /\ ~OnToolReturnsEarly'
                    /\ ~CleanupReturnsEarly']_vars

\* the generator promise of start() is still pending after an onTool() and a
\* cleanup() have been called and have completed
C18_Witness ==
    /\ \E g \in tasks : g.pc = "generateReaction" /\ g.tid = 1 /\ g.cleaned
    /\ lastOp = Op("cleanup", "deleted")
    /\ calls = 3
    /\ chat[1].text \in {ToolText(toolName) : toolName \in ToolNames}
    /\ chat[1].deleted
    /\ ~active

\* C19: once cleanup() has called the transport delete for a message, no transport
\* edit and no second delete is issued for that message, neither while the delete
\* is in flight nor after it has resolved.
C19_NoEditOfMessageBeingDeleted ==
    [][\A t \in Issued :
          t.pc \in EditPcs \cup SmartEditPcs \cup {"delete"} =>
              /\ \A u \in TasksAt("delete") : u.msgId # t.msgId
              /\ ~chat[t.msgId].deleted]_vars

\* C20: when an edit issued for the message of an earlier session resolves while a
\* later session is Active, the recorded displayed text of the later session is
\* left as it is.
C20_StaleEditLeavesDisplayText ==
    [][\A t \in tasks :
          (/\ t.pc \in EditPcs \cup SmartEditPcs
           /\ Settled(t)
           /\ lastOp'.result = "edited"
           /\ active
           /\ t.msgId # placeholderMessageId)
              => currentDisplayText' = currentDisplayText]_vars

\* C11: when the completion of a reaction settles after the timer has fired, the
\* handler of that invocation issues no transport edit (the invocation has yielded
\* undefined), so the placeholder keeps the canned message.
C11_LateCompletionIgnored ==
    [][\A g \in gens :
          (g.kind = "reaction" /\ g.aborted /\ \A h \in gens' : h.id # g.id)
              => Issued = {}]_vars

\* C14 as stated: every invocation calls complete() once and returns without
\* raising, and what it returns is undefined whenever the timer fired before the
\* completion settled, the completion rejected, or the result held no non-empty text.
C14_OneCallNeverRaises ==
    /\ \A g \in gens : g.completions = 1
    /\ genReturn.id # 0 =>
          /\ genReturn.completions = 1
          /\ ~genReturn.raised
          /\ (genReturn.aborted \/ genReturn.outcome \in ErrorNames \/ genReturn.outcome = "empty")
                => genReturn.value = Undefined

\* the total length of the lines of the messages from..to of h
RECURSIVE LinesLength(_, _, _)
LinesLength(h, from, to) ==
    IF from > to THEN 0 ELSE LineLength(h[from]) + LinesLength(h, from + 1, to)

\* C15: the history lines in the user content of generateReaction are the longest
\* run of most recent messages whose lines fit the budget together: a contiguous
\* run that ends with the newest message, in chronological order, of total length at
\* most MAX_HISTORY_CHARS, preceded by a message whose line would push the total past
\* the budget (or by none), and the content carries the new user message after them.
C15_HistoryFitsBudget ==
    \A g \in gens :
        g.kind = "reaction" =>
            LET n == Len(history)
                included == g.userContent.conversationSoFar
                first == n - Len(included) + 1
            IN  /\ Len(included) <= n
                /\ \A j \in 1..Len(included) : included[j] = first + j - 1
                /\ LinesLength(history, first, n) <= MAX_HISTORY_CHARS
                /\ first > 1 =>
                      LinesLength(history, first, n) + LineLength(history[first - 1])
                          > MAX_HISTORY_CHARS
                /\ g.userContent.nowTheySay = (included # <<>>)
                /\ g.userContent.userMessage \in UserMessages

\* the newest message fits, the one before it does not, and the oldest one, which
\* would still fit, is left out
C15_Witness ==
    \E g \in gens :
        /\ g.kind = "reaction"
        /\ Len(history) = 3
        /\ g.userContent.conversationSoFar = <<3>>
        /\ LineLength(history[3]) + LineLength(history[2]) > MAX_HISTORY_CHARS
        /\ LineLength(history[3]) + LineLength(history[1]) <= MAX_HISTORY_CHARS

\* C16: when both config.personality and config.systemPrompt are set, the system
\* prompt generateReaction sends is the one built from the personality.
C16_PersonalityBeforeSystemPrompt ==
    \A g \in gens :
        (g.kind = "reaction" /\ Truthy(genConfig.personality) /\ Truthy(genConfig.systemPrompt))
            => g.systemPrompt = buildReactionSystemPrompt(genConfig.personality)

====
